---- MODULE Spec2Model ----
(***************************************************************************)
(* Model of the portfolio backend: the input guard (guards.py), the        *)
(* command registry (commands.py), the LLM service with its session map    *)
(* (llm.py) and the routes that call them (app.py).                        *)
(*                                                                         *)
(* Text is modelled as a sequence of parts.  A part is a TLA+ string: a    *)
(* single character for text the code inspects (user input, command names, *)
(* model replies) and a whole literal for the fixed messages the code only *)
(* passes along.  The empty Python string is the empty sequence.           *)
(***************************************************************************)
EXTENDS Integers, Sequences, FiniteSets, TLC

(***************************************************************************)
(* Characters and the str methods the code uses.                           *)
(***************************************************************************)
LowerLetters ==
  <<"a","b","c","d","e","f","g","h","i","j","k","l","m",
    "n","o","p","q","r","s","t","u","v","w","x","y","z">>

UpperLetters ==
  <<"A","B","C","D","E","F","G","H","I","J","K","L","M",
    "N","O","P","Q","R","S","T","U","V","W","X","Y","Z">>

Digits == {"0","1","2","3","4","5","6","7","8","9"}

Range(f) == {f[i] : i \in DOMAIN f}

LowerSet  == Range(LowerLetters)
UpperSet  == Range(UpperLetters)
WordChars == LowerSet \cup UpperSet \cup Digits \cup {"_"}

LowerOf == [c \in UpperSet |->
              LowerLetters[CHOOSE i \in DOMAIN UpperLetters : UpperLetters[i] = c]]
UpperOf == [c \in LowerSet |->
              UpperLetters[CHOOSE i \in DOMAIN LowerLetters : LowerLetters[i] = c]]

\* str.isspace / regex \s, restricted to the blank and the tab
IsSpace(c) == c \in {" ", "\t"}

\* regex \w, restricted to ASCII
IsWord(c) == c \in WordChars

\* str.lower on one character
LowerChar(c) == IF c \in UpperSet THEN LowerOf[c] ELSE c

\* str.upper on one character
UpperChar(c) == IF c \in LowerSet THEN UpperOf[c] ELSE c

\* str.lower
Lower(s) == [i \in DOMAIN s |-> LowerChar(s[i])]

\* str.strip: drop the leading and the trailing white space
RECURSIVE LStrip(_)
LStrip(s) == IF s # <<>> /\ IsSpace(Head(s)) THEN LStrip(Tail(s)) ELSE s

RECURSIVE RStrip(_)
RStrip(s) ==
  IF s # <<>> /\ IsSpace(s[Len(s)]) THEN RStrip(SubSeq(s, 1, Len(s) - 1)) ELSE s

Strip(s) == RStrip(LStrip(s))

\* the first white-space-free run of s
RECURSIVE TakeWord(_)
TakeWord(s) ==
  IF s = <<>> \/ IsSpace(Head(s)) THEN <<>> ELSE <<Head(s)>> \o TakeWord(Tail(s))

\* str.split(): the white-space-separated words of s, in order
RECURSIVE Split(_)
Split(s) ==
  LET t == LStrip(s)
  IN  IF t = <<>> THEN <<>>
      ELSE LET w == TakeWord(t)
           IN  <<w>> \o Split(SubSeq(t, Len(w) + 1, Len(t)))

\* str.split(maxsplit=1): the first word and, when present, the rest
SplitMax1(s) ==
  LET t == LStrip(s)
  IN  IF t = <<>> THEN <<>>
      ELSE LET w    == TakeWord(t)
               rest == RStrip(LStrip(SubSeq(t, Len(w) + 1, Len(t))))
           IN  IF rest = <<>> THEN <<w>> ELSE <<w, rest>>

\* Python's s[start:] for any integer start
PySliceFrom(s, start) ==
  LET n == Len(s)
      b == IF start < 0 THEN (IF n + start < 0 THEN 0 ELSE n + start)
           ELSE (IF start > n THEN n ELSE start)
  IN  SubSeq(s, b + 1, n)

\* Python's s[:stop] for any integer stop
PySliceTo(s, stop) ==
  LET n == Len(s)
      e == IF stop < 0 THEN (IF n + stop < 0 THEN 0 ELSE n + stop)
           ELSE (IF stop > n THEN n ELSE stop)
  IN  SubSeq(s, 1, e)

\* sep.join(ws)
RECURSIVE Join(_, _)
Join(ws, sep) ==
  IF ws = <<>> THEN <<>>
  ELSE IF Len(ws) = 1 THEN ws[1]
  ELSE ws[1] \o sep \o Join(Tail(ws), sep)

\* str.upper
Upper(s) == [i \in DOMAIN s |-> UpperChar(s[i])]

\* str.capitalize on a lower-case word
Capitalize(s) == IF s = <<>> THEN s ELSE <<UpperChar(s[1])>> \o Tail(s)

(***************************************************************************)
(* Regular expressions, as the re module matches them with IGNORECASE.     *)
(* A pattern is a tree; MatchEnds gives every position at which a match    *)
(* that starts at position i can end, so backtracking is complete.         *)
(***************************************************************************)
Lit(w)  == [t |-> "lit", s |-> w]
Ws0     == [t |-> "ws0"]
Ws1     == [t |-> "ws1"]
WordB   == [t |-> "wb"]
Opt(r)  == [t |-> "opt", r |-> r]
Alt(rs) == [t |-> "alt", a |-> rs]
Cat(rs) == [t |-> "cat", a |-> rs]

\* regex \b at position i (between s[i-1] and s[i])
AtWordBoundary(s, i) ==
  LET before == i - 1 >= 1 /\ IsWord(s[i - 1])
      after  == i <= Len(s) /\ IsWord(s[i])
  IN  before # after

RECURSIVE MatchEnds(_, _, _)
RECURSIVE CatEnds(_, _, _, _)

MatchEnds(re, s, i) ==
  CASE re.t = "lit" ->
         IF /\ i + Len(re.s) - 1 <= Len(s)
            /\ \A k \in DOMAIN re.s : LowerChar(s[i + k - 1]) = LowerChar(re.s[k])
         THEN {i + Len(re.s)} ELSE {}
    [] re.t = "ws0" ->
         {j \in i..(Len(s) + 1) : \A k \in i..(j - 1) : IsSpace(s[k])}
    [] re.t = "ws1" ->
         {j \in (i + 1)..(Len(s) + 1) : \A k \in i..(j - 1) : IsSpace(s[k])}
    [] re.t = "wb"  -> IF AtWordBoundary(s, i) THEN {i} ELSE {}
    [] re.t = "opt" -> {i} \cup MatchEnds(re.r, s, i)
    [] re.t = "alt" -> UNION {MatchEnds(re.a[k], s, i) : k \in DOMAIN re.a}
    [] re.t = "cat" -> CatEnds(re.a, 1, s, {i})

CatEnds(rs, k, s, from) ==
  IF k > Len(rs) \/ from = {} THEN from
  ELSE CatEnds(rs, k + 1, s, UNION {MatchEnds(rs[k], s, i) : i \in from})

\* pattern.match(s): a match that starts at the beginning of s
ReMatch(re, s) == MatchEnds(re, s, 1) # {}

\* pattern.search(s): a match that starts anywhere in s
ReSearch(re, s) == \E i \in 1..(Len(s) + 1) : MatchEnds(re, s, i) # {}

(***************************************************************************)
(* guards.py                                                               *)
(***************************************************************************)
W_ignore       == <<"i","g","n","o","r","e">>
W_disregard    == <<"d","i","s","r","e","g","a","r","d">>
W_forget       == <<"f","o","r","g","e","t">>
W_all          == <<"a","l","l">>
W_previous     == <<"p","r","e","v","i","o","u","s">>
W_prior        == <<"p","r","i","o","r">>
W_above        == <<"a","b","o","v","e">>
W_system       == <<"s","y","s","t","e","m">>
W_prompt       == <<"p","r","o","m","p","t">>
W_you          == <<"y","o","u">>
W_are          == <<"a","r","e">>
W_now          == <<"n","o","w">>
W_act          == <<"a","c","t">>
W_as           == <<"a","s">>
W_if           == <<"i","f">>
W_a            == <<"a">>
W_pretend      == <<"p","r","e","t","e","n","d">>
W_to           == <<"t","o">>
W_be           == <<"b","e">>
W_new          == <<"n","e","w">>
W_instructions == <<"i","n","s","t","r","u","c","t","i","o","n","s">>
W_override     == <<"o","v","e","r","r","i","d","e">>
W_rules        == <<"r","u","l","e","s">>

\* (all\s+)?(previous|prior|above)
PriorTail ==
  <<Opt(Cat(<<Lit(W_all), Ws1>>)), Alt(<<Lit(W_previous), Lit(W_prior), Lit(W_above)>>)>>

INJECTION_PATTERNS == <<
  Cat(<<Lit(W_ignore), Ws1>> \o PriorTail),
  Cat(<<Lit(W_disregard), Ws1>> \o PriorTail),
  Cat(<<Lit(W_forget), Ws1>> \o PriorTail),
  Cat(<<Lit(W_system), Ws0, Lit(W_prompt)>>),
  Cat(<<Lit(W_you), Ws1, Lit(W_are), Ws1, Lit(W_now)>>),
  Cat(<<Lit(W_act), Ws1, Lit(W_as), Ws1,
        Alt(<<Cat(<<Lit(W_if), Ws1, Lit(W_you), Ws1, Lit(W_are)>>), Lit(W_a)>>)>>),
  Cat(<<Lit(W_pretend), Ws1,
        Alt(<<Cat(<<Lit(W_to), Ws1, Lit(W_be)>>), Cat(<<Lit(W_you), Ws1, Lit(W_are)>>)>>)>>),
  Cat(<<Lit(W_new), Ws1, Lit(W_instructions)>>),
  Cat(<<Lit(W_override), Ws1, Alt(<<Lit(W_instructions), Lit(W_rules)>>)>>),
  Cat(<<Lit(<<"<">>), Ws0, Lit(W_system), Ws0, Lit(<<">">>)>>),
  Cat(<<Lit(<<"[">>), Ws0, Lit(W_system), Ws0, Lit(<<"]">>)>>)
>>

\* the injection check with pattern.match, which looks at the start only
MatchesInjectionAtStart(m) ==
  \E p \in DOMAIN INJECTION_PATTERNS : ReMatch(INJECTION_PATTERNS[p], m)

\* any(pattern.search(message) for pattern in COMPILED_PATTERNS)
MatchesInjection(m) ==
  \E p \in DOMAIN INJECTION_PATTERNS : ReSearch(INJECTION_PATTERNS[p], m)

\* Python's None in the error_message field; no message text equals it
None == <<"None">>

ValidationResult(ok, msg) == [is_valid |-> ok, error_message |-> msg]

MSG_EMPTY      == <<"Message cannot be empty.">>
MSG_INJECTION  == <<"I can only answer questions about Ben's professional background.">>
MSG_REPETITION == <<"Please ask a clear question about Ben's experience.">>

\* f"Message too long. Please keep it under {max_chars} characters."
MsgTooLong(maxChars) ==
  <<"Message too long. Please keep it under ", ToString(maxChars), " characters.">>

\* word_counts[word] for one word
WordCount(words, w) == Cardinality({i \in DOMAIN words : words[i] = w})

\* max(word_counts.values())
MaxRepetition(words) ==
  CHOOSE n \in 1..Len(words) :
    /\ \E i \in DOMAIN words : WordCount(words, words[i]) = n
    /\ \A i \in DOMAIN words : WordCount(words, words[i]) <= n

\* the repetition check without message.lower()
ExcessiveRepetitionAsTyped(m) ==
  LET words == Split(m)
  IN  Len(words) > 5 /\ 2 * MaxRepetition(words) > Len(words)

\* len(words) > 5 and max_repetition > len(words) * 0.5
ExcessiveRepetition(m) ==
  LET words == Split(Lower(m))
  IN  Len(words) > 5 /\ 2 * MaxRepetition(words) > Len(words)

\* validate_input with the injection check moved before the length check
validate_input_injection_first(msg, maxChars) ==
  IF msg = <<>> \/ Strip(msg) = <<>>
  THEN ValidationResult(FALSE, MSG_EMPTY)
  ELSE LET m == Strip(msg)
       IN  IF MatchesInjection(m)
           THEN ValidationResult(FALSE, MSG_INJECTION)
           ELSE IF Len(m) > maxChars
           THEN ValidationResult(FALSE, MsgTooLong(maxChars))
           ELSE IF ExcessiveRepetition(m)
           THEN ValidationResult(FALSE, MSG_REPETITION)
           ELSE ValidationResult(TRUE, None)

\* validate_input with len(message) >= max_chars as its length check
validate_input_strict_limit(msg, maxChars) ==
  IF msg = <<>> \/ Strip(msg) = <<>>
  THEN ValidationResult(FALSE, MSG_EMPTY)
  ELSE LET m == Strip(msg)
       IN  IF Len(m) >= maxChars
           THEN ValidationResult(FALSE, MsgTooLong(maxChars))
           ELSE IF MatchesInjection(m)
           THEN ValidationResult(FALSE, MSG_INJECTION)
           ELSE IF ExcessiveRepetition(m)
           THEN ValidationResult(FALSE, MSG_REPETITION)
           ELSE ValidationResult(TRUE, None)

validate_input(msg, maxChars) ==
  IF msg = <<>> \/ Strip(msg) = <<>>
  THEN ValidationResult(FALSE, MSG_EMPTY)
  ELSE LET m == Strip(msg)
       IN  IF Len(m) > maxChars
           THEN ValidationResult(FALSE, MsgTooLong(maxChars))
           ELSE IF MatchesInjection(m)
           THEN ValidationResult(FALSE, MSG_INJECTION)
           ELSE IF ExcessiveRepetition(m)
           THEN ValidationResult(FALSE, MSG_REPETITION)
           ELSE ValidationResult(TRUE, None)

MSG_NO_RESPONSE == <<"I couldn't generate a response. Please try again.">>

\* str.rsplit(" ", 1)[0]: what precedes the last blank, or all of s
RSplitBlankHead(s) ==
  IF \E i \in DOMAIN s : s[i] = " "
  THEN LET last == CHOOSE i \in DOMAIN s :
                     s[i] = " " /\ \A j \in DOMAIN s : s[j] = " " => j <= i
       IN  SubSeq(s, 1, last - 1)
  ELSE s

sanitize_output(response, maxChars) ==
  IF response = <<>> THEN MSG_NO_RESPONSE
  ELSE IF Len(response) > maxChars
       THEN Strip(RSplitBlankHead(PySliceTo(response, maxChars)) \o <<".", ".", ".">>)
       ELSE Strip(response)

(***************************************************************************)
(* llm.py: the singleton and ask.  What the hosted model and the           *)
(* construction of the service do is the environment's choice.             *)
(***************************************************************************)
MSG_APOLOGY == <<"Sorry, I'm having trouble responding right now. Please try again.">>
MSG_INVALID == <<"Invalid input.">>

\* the max_chars default of sanitize_output, which ask and chat rely on
DEFAULT_MAX_OUTPUT_CHARS == 1500

\* get_llm_service(): the instance after the call, and whether the call raised.
\* service is "None" or "LLMService"; init_ok says whether LLMService() succeeds.
get_llm_service(service, init_ok) ==
  IF service = "None"
  THEN IF init_ok THEN [service |-> "LLMService", raised |-> FALSE]
                  ELSE [service |-> "None", raised |-> TRUE]
  ELSE [service |-> service, raised |-> FALSE]

\* validation.error_message or "Invalid input."
ErrorMessageOr(validation) ==
  IF validation.error_message = None \/ validation.error_message = <<>>
  THEN MSG_INVALID ELSE validation.error_message

\* the rest of ask once validate_input has returned validation
AskValidated(validation, run) ==
  IF ~ validation.is_valid
  THEN [ret |-> ErrorMessageOr(validation), model_called |-> FALSE]
  ELSE IF run.raised
  THEN [ret |-> MSG_APOLOGY, model_called |-> TRUE]
  ELSE [ret |-> sanitize_output(run.output, DEFAULT_MAX_OUTPUT_CHARS),
        model_called |-> TRUE]

\* LLMService.ask(message): run is what agent.run_sync does, [raised, output]
ask(message, maxInput, run) ==
  AskValidated(validate_input(message, maxInput), run)

(***************************************************************************)
(* llm.py: the session store.  self._sessions is a dict from session id to *)
(* a list of messages; here every id has an entry that says whether the    *)
(* dict holds the id and, when it does, the list.                          *)
(***************************************************************************)
SessionIds == {"s1", "s2"}

Absent         == [present |-> FALSE, messages |-> <<>>]
Held(messages) == [present |-> TRUE, messages |-> messages]

\* self._sessions = {} of __init__
NoSessions == [id \in SessionIds |-> Absent]

\* self._sessions[session_id] = messages with every other entry dropped
store_messages_alone(sessions, session_id, messages) ==
  [id \in SessionIds |-> IF id = session_id THEN Held(messages) ELSE Absent]

\* the assignment made an extension of the list the entry holds
store_messages_extending(sessions, session_id, messages) ==
  [sessions EXCEPT ![session_id] = Held(sessions[session_id].messages \o messages)]

\* self._sessions[session_id] = messages
store_messages(sessions, session_id, messages) ==
  [sessions EXCEPT ![session_id] = Held(messages)]

\* _get_session: the store afterwards and the list returned
get_session(sessions, session_id) ==
  IF ~ sessions[session_id].present
  THEN [sessions |-> store_messages(sessions, session_id, <<>>), ret |-> <<>>]
  ELSE [sessions |-> sessions, ret |-> sessions[session_id].messages]

\* self._sessions.get(session_id, [])
SessionOrEmpty(sessions, session_id) ==
  IF sessions[session_id].present THEN sessions[session_id].messages ELSE <<>>

\* config.LLM_MAX_CONVERSATION_TURNS * 2
max_messages(maxTurns) == maxTurns * 2

\* _trim_session
trim_session(sessions, session_id, maxTurns) ==
  IF Len(SessionOrEmpty(sessions, session_id)) > max_messages(maxTurns)
  THEN store_messages(sessions, session_id,
         PySliceFrom(SessionOrEmpty(sessions, session_id), 0 - max_messages(maxTurns)))
  ELSE sessions

\* del self._sessions[session_id]: KeyError when the dict does not hold the id
del_session(sessions, session_id) ==
  [sessions |-> [sessions EXCEPT ![session_id] = Absent],
   raised   |-> ~ sessions[session_id].present]

\* clear_session that leaves the entry in place
clear_session_keeping_entry(sessions, session_id) == sessions

\* clear_session that empties the history and keeps the entry
clear_session_emptying(sessions, session_id) ==
  IF sessions[session_id].present
  THEN store_messages(sessions, session_id, <<>>)
  ELSE sessions

\* clear_session
clear_session(sessions, session_id) ==
  IF sessions[session_id].present
  THEN del_session(sessions, session_id).sessions
  ELSE sessions

\* whether clear_session raises: only its del can
clear_session_raised(sessions, session_id) ==
  sessions[session_id].present /\ del_session(sessions, session_id).raised

\* the messages of one run: the request that carries the user's message and
\* the response that carries the model's output
ModelRequest(message) == [kind |-> "request", content |-> message]
ModelResponse(output) == [kind |-> "response", content |-> output]

\* result.all_messages(): the history handed to the run, then its messages
all_messages(message_history, message, output) ==
  message_history \o <<ModelRequest(message), ModelResponse(output)>>

\* what chat returns and leaves behind
ChatResult(sessions, ret, model_called) ==
  [sessions |-> sessions, ret |-> ret, model_called |-> model_called]

\* chat in which a failed run leaves the user's request in the history
chat_keeping_failed_request(sessions, session_id, message, maxInput, maxTurns, run) ==
  IF ~ validate_input(message, maxInput).is_valid
  THEN ChatResult(sessions, ErrorMessageOr(validate_input(message, maxInput)), FALSE)
  ELSE IF run.raised
  THEN ChatResult(
         store_messages(sessions, session_id,
           get_session(sessions, session_id).ret \o <<ModelRequest(message)>>),
         MSG_APOLOGY, TRUE)
  ELSE ChatResult(
         trim_session(
           store_messages(get_session(sessions, session_id).sessions, session_id,
             all_messages(get_session(sessions, session_id).ret, message, run.output)),
           session_id, maxTurns),
         sanitize_output(run.output, DEFAULT_MAX_OUTPUT_CHARS), TRUE)

\* chat that fetches the session before it validates the message
chat_creating_session_first(sessions, session_id, message, maxInput, maxTurns, run) ==
  IF ~ validate_input(message, maxInput).is_valid
  THEN ChatResult(get_session(sessions, session_id).sessions,
                  ErrorMessageOr(validate_input(message, maxInput)), FALSE)
  ELSE IF run.raised
  THEN ChatResult(get_session(sessions, session_id).sessions, MSG_APOLOGY, TRUE)
  ELSE ChatResult(
         trim_session(
           store_messages(get_session(sessions, session_id).sessions, session_id,
             all_messages(get_session(sessions, session_id).ret, message, run.output)),
           session_id, maxTurns),
         sanitize_output(run.output, DEFAULT_MAX_OUTPUT_CHARS), TRUE)

\* LLMService.chat(session_id, message): run is what agent.run_sync does
chat(sessions, session_id, message, maxInput, maxTurns, run) ==
  IF ~ validate_input(message, maxInput).is_valid
  THEN ChatResult(sessions, ErrorMessageOr(validate_input(message, maxInput)), FALSE)
  ELSE IF run.raised
  THEN ChatResult(get_session(sessions, session_id).sessions, MSG_APOLOGY, TRUE)
  ELSE ChatResult(
         trim_session(
           store_messages(get_session(sessions, session_id).sessions, session_id,
             all_messages(get_session(sessions, session_id).ret, message, run.output)),
           session_id, maxTurns),
         sanitize_output(run.output, DEFAULT_MAX_OUTPUT_CHARS), TRUE)

(***************************************************************************)
(* commands.py                                                             *)
(***************************************************************************)
SIMULATED_TERMINAL_MESSAGE ==
  <<"Oops sorry, this is just a simulation of a real terminal. Type 'help' to see available commands.">>

UNIX_COMMANDS == <<
  <<"l","s">>, <<"c","d">>, <<"r","m">>, <<"p","w","d">>, <<"c","a","t">>,
  <<"t","o","u","c","h">>, <<"m","k","d","i","r">>, <<"r","m","d","i","r">>,
  <<"c","p">>, <<"m","v">>, <<"c","h","m","o","d">>, <<"c","h","o","w","n">>,
  <<"f","i","n","d">>, <<"g","r","e","p">>, <<"h","e","a","d">>, <<"t","a","i","l">>,
  <<"l","e","s","s">>, <<"m","o","r","e">>, <<"p","s">>, <<"t","o","p">>,
  <<"k","i","l","l">>
>>

\* ^\s*(ls|cd|...|kill)\b with re.IGNORECASE
UNIX_PATTERN ==
  Cat(<<Ws0, Alt([i \in DOMAIN UNIX_COMMANDS |-> Lit(UNIX_COMMANDS[i])]), WordB>>)

\* the same pattern compiled without re.IGNORECASE
is_unix_command_case_sensitive(raw_command) ==
  \E j \in MatchEnds(UNIX_PATTERN, raw_command, 1) :
    SubSeq(raw_command, 1, j - 1) = Lower(SubSeq(raw_command, 1, j - 1))

is_unix_command(raw_command) == ReMatch(UNIX_PATTERN, raw_command)

Command(name, description, handler) ==
  [name |-> name, description |-> description, handler |-> handler]

\* the dict _commands, in insertion order
DictHas(d, k) == \E i \in DOMAIN d : d[i].key = k

DictGet(d, k) == d[CHOOSE i \in DOMAIN d : d[i].key = k].value

DictSet(d, k, v) ==
  IF DictHas(d, k)
  THEN [i \in DOMAIN d |-> IF d[i].key = k THEN [key |-> k, value |-> v] ELSE d[i]]
  ELSE Append(d, [key |-> k, value |-> v])

\* register with the name used as the key unchanged
register_exact(cmds, command) == DictSet(cmds, command.name, command)

register(cmds, command) == DictSet(cmds, Lower(command.name), command)

N_help    == <<"h","e","l","p">>
N_about   == <<"a","b","o","u","t">>
N_cv      == <<"c","v">>
N_clear   == <<"c","l","e","a","r">>
N_contact == <<"c","o","n","t","a","c","t">>
N_chat    == <<"c","h","a","t">>
N_exit    == <<"e","x","i","t">>

DEFAULT_COMMANDS == <<
  Command(N_help,    <<"List all available commands and what they do.">>, "_help_handler"),
  Command(N_about,   <<"Read a short introduction about me.">>, "_about_handler"),
  Command(N_cv,      <<"Download my current CV as a PDF.">>, "_cv_handler"),
  Command(N_clear,   <<"Clear the virtual terminal history.">>, "_clear_handler"),
  Command(N_contact, <<"Get my contact details and social links.">>, "_contact_handler"),
  Command(N_chat,    <<"Enter AI chat mode for a conversation about Ben.">>, "_chat_handler"),
  Command(N_exit,    <<"Exit AI chat mode and return to commands.">>, "_exit_handler")
>>

RECURSIVE RegisterAll(_, _)
RegisterAll(cmds, list) ==
  IF list = <<>> THEN cmds ELSE RegisterAll(register(cmds, Head(list)), Tail(list))

\* CommandRegistry.__init__: _commands after _register_default_commands
register_default_commands == RegisterAll(<<>>, DEFAULT_COMMANDS)

\* f"{name:<8}": pad with blanks on the right to 8 characters, never cut
RECURSIVE PadRight(_, _)
PadRight(s, n) == IF Len(s) >= n THEN s ELSE PadRight(s \o <<" ">>, n)

format_command_line(command) ==
  <<" ", " ">> \o PadRight(command.name, 8) \o <<" ">> \o command.description

\* the banner with the commands of the constructor only
HelpBannerOfDefaults(cmds) ==
  <<"Available commands (type them just like you would in a terminal):\n">>
    \o Join([i \in DOMAIN DEFAULT_COMMANDS |-> format_command_line(DEFAULT_COMMANDS[i])],
            <<"\n">>)
    \o <<"\n\n", "Tip: You can also just ask me questions directly!">>

\* the banner of _help_handler (its tip line without the leading emoji)
HelpBanner(cmds) ==
  <<"Available commands (type them just like you would in a terminal):\n">>
    \o Join([i \in DOMAIN cmds |-> format_command_line(cmds[i].value)], <<"\n">>)
    \o <<"\n\n", "Tip: You can also just ask me questions directly!">>

ABOUT_TEXT   == <<"Hi there. My name's Ben, ... my assistant will do its best to help!">>
CONTACT_TEXT == <<"Get in touch: Email, GitHub, LinkedIn">>
CHAT_START_TEXT ==
  <<"Entering chat mode! Ask me anything about Ben's experience, skills, or background. Type 'exit' or 'end' to return to command mode, or 'help' to see chat tips.">>
CHAT_END_TEXT == <<"Exited chat mode. Type 'help' to see available commands.">>

\* url_for("download_cv"), the route of app.py
DOWNLOAD_CV_URL == <<"/download/cv">>

\* command.handler(raw_command); a handler registered by a caller other than
\* the defaults is modelled as one that reports its own name and its argument
RunHandler(handler, raw_command, cmds) ==
  CASE handler = "_help_handler"    -> [kind |-> "text", output |-> HelpBanner(cmds)]
    [] handler = "_about_handler"   -> [kind |-> "text", output |-> ABOUT_TEXT]
    [] handler = "_cv_handler"      ->
         [kind |-> "download", output |-> <<>>, url |-> DOWNLOAD_CV_URL]
    [] handler = "_clear_handler"   -> [kind |-> "clear", output |-> <<>>]
    [] handler = "_contact_handler" -> [kind |-> "text", output |-> CONTACT_TEXT]
    [] handler = "_chat_handler"    -> [kind |-> "chat_start", output |-> CHAT_START_TEXT]
    [] handler = "_exit_handler"    -> [kind |-> "chat_end", output |-> CHAT_END_TEXT]
    [] OTHER -> [kind |-> "text", output |-> <<handler, "(">> \o raw_command \o <<")">>]

\* JSON values, as request.get_json hands them to the handler.  An object is
\* described by its "command" member alone.
JNull      == [t |-> "null"]
JStr(s)    == [t |-> "str", v |-> s]
JNum(n)    == [t |-> "num", v |-> n]
JBool(b)   == [t |-> "bool", v |-> b]
JList(n)   == [t |-> "list", len |-> n]
JObject    == [t |-> "obj", has_command |-> FALSE]
JCommand(c) == [t |-> "obj", has_command |-> TRUE, command |-> c]

\* Python's truth value of a JSON value
Truthy(j) ==
  CASE j.t = "null" -> FALSE
    [] j.t = "str"  -> j.v # <<>>
    [] j.t = "num"  -> j.v # 0
    [] j.t = "bool" -> j.v
    [] j.t = "list" -> j.len > 0
    [] j.t = "obj"  -> j.has_command

\* request.get_json(silent=True): None when the body is absent or is not JSON
get_json(body) == IF body.t = "json" THEN body.value ELSE JNull

MSG_TYPE_A_COMMAND  == <<"Type a command to get started.">>
MSG_AI_UNAVAILABLE  ==
  <<"AI assistant is unavailable. Type 'help' to see available commands.">>

\* f"Unknown command: '{command_name}'. Type 'help' to see options."
MsgUnknownCommand(command_name) ==
  <<"Unknown command: '">> \o command_name \o <<"'. Type 'help' to see options.">>

\* self._llm_enabled, set in __init__ and never changed
llm_enabled == TRUE

\* what one request did: the HTTP status and the JSON body of the response,
\* the handler that ran and its argument, whether the LLM fallback was
\* entered, whether the hosted model was called, and the singleton afterwards
Outcome(status, body, handler, arg, llm_invoked, model_called, service) ==
  [status |-> status, body |-> body, handler |-> handler, arg |-> arg,
   llm_invoked |-> llm_invoked, model_called |-> model_called, service |-> service]

\* jsonify(body), from a path that calls neither a handler nor the fallback
Jsonify(body, service) == Outcome(200, body, "", <<>>, FALSE, FALSE, service)

\* an exception that leaves the view function: Flask answers 500
Unhandled(exception, service) ==
  Outcome(500, [kind |-> "unhandled", output |-> <<exception>>],
          "", <<>>, FALSE, FALSE, service)

\* _handle_llm_fallback(question); env is what the environment does in this
\* request: whether LLMService() succeeds and what agent.run_sync does
handle_llm_fallback(question, service, maxInput, env) ==
  LET got == get_llm_service(service, env.init_ok)
  IN  IF got.raised
      THEN Outcome(200, [kind |-> "error", output |-> MSG_AI_UNAVAILABLE],
                   "", <<>>, TRUE, FALSE, got.service)
      ELSE LET answer == ask(question, maxInput, env.run)
           IN  Outcome(200, [kind |-> "ai", output |-> answer.ret],
                       "", <<>>, TRUE, answer.model_called, got.service)

\* the key a command name is looked up under, taken as typed
LookupKeyAsTyped(command_name) == command_name

\* command_name.lower()
LookupKey(command_name) == Lower(command_name)

\* process_command up to the choice of what answers the request: an exception,
\* a fixed error, the handler of a registered command, or the path taken by
\* an unknown command
Route(cmds, body) ==
  LET parsed  == get_json(body)
      payload == IF Truthy(parsed) THEN parsed ELSE JObject
  IN
  IF payload.t # "obj" THEN [t |-> "raise", exception |-> "AttributeError"]
  ELSE
  LET member == IF payload.has_command THEN payload.command ELSE JNull
      value  == IF Truthy(member) THEN member ELSE JStr(<<>>)
  IN
  IF value.t # "str" THEN [t |-> "raise", exception |-> "AttributeError"]
  ELSE
  LET raw_command == Strip(value.v)
  IN
  IF raw_command = <<>>
  THEN [t |-> "fixed", output |-> MSG_TYPE_A_COMMAND]
  ELSE IF is_unix_command(raw_command)
  THEN [t |-> "fixed", output |-> SIMULATED_TERMINAL_MESSAGE]
  ELSE
  LET command_name == SplitMax1(raw_command)[1]
      key          == LookupKey(command_name)
  IN
  IF DictHas(cmds, key)
  THEN [t |-> "handler", command |-> DictGet(cmds, key), raw_command |-> raw_command]
  ELSE [t |-> "unknown", command_name |-> command_name, raw_command |-> raw_command]

\* the rest of process_command, once the route is chosen
Answer(route, cmds, service, maxInput, env) ==
  CASE route.t = "raise" -> Unhandled(route.exception, service)
    [] route.t = "fixed" -> Jsonify([kind |-> "error", output |-> route.output], service)
    [] route.t = "handler" ->
         Outcome(200, RunHandler(route.command.handler, route.raw_command, cmds),
                 route.command.handler, route.raw_command, FALSE, FALSE, service)
    [] route.t = "unknown" ->
         IF llm_enabled
         THEN handle_llm_fallback(route.raw_command, service, maxInput, env)
         ELSE Jsonify([kind |-> "error",
                       output |-> MsgUnknownCommand(route.command_name)], service)

\* CommandRegistry.process_command
process_command(cmds, body, service, maxInput, env) ==
  Answer(Route(cmds, body), cmds, service, maxInput, env)

(***************************************************************************)
(* State. The guard_* variables hold one call of validate_input: its      *)
(* arguments, and its result once the call has returned.                   *)
(***************************************************************************)
VARIABLES guard_message, guard_max_chars, guard_result, guard_pc

guard_vars == <<guard_message, guard_max_chars, guard_result, guard_pc>>

(***************************************************************************)
(* commands is CommandRegistry._commands; llm_service is the module global *)
(* _llm_service of llm.py; config holds the settings of config.py that the *)
(* code reads.  request is the body of the last POST /command, response    *)
(* the status and JSON body it was answered with, and trace what ran to    *)
(* produce it.                                                             *)
(***************************************************************************)
VARIABLES commands, llm_service, config, request, response, trace

cmd_vars == <<commands, llm_service, config, request, response, trace>>

(***************************************************************************)
(* sessions is LLMService._sessions.  conversation records, for every id,  *)
(* all the messages of its successful exchanges since it was last cleared. *)
(* chat_call is the last call of chat or clear_session and what it         *)
(* returned, chat_before the store as that call found it, and chat_count   *)
(* the number of calls made.                                               *)
(***************************************************************************)
VARIABLES sessions, conversation, chat_before, chat_call, chat_count

chat_vars == <<sessions, conversation, chat_before, chat_call, chat_count>>

(***************************************************************************)
(* workers holds, for every request thread, its position in chat or in     *)
(* clear_session and its local variables.  serial holds, for every thread, *)
(* the entry its session id would have had its finished requests run alone *)
(* and undivided, and overlap whether a thread has taken a step while the  *)
(* other was inside a request.  audit records, for every session id, the   *)
(* lists chat has assigned to the entry (results), the messages of the     *)
(* requests begun before a clear_session that has returned (cleared), and  *)
(* of those begun before a clear_session that returned while no chat on    *)
(* the id was in progress (cleared_alone).                                 *)
(***************************************************************************)
VARIABLES workers, serial, overlap, audit

(***************************************************************************)
(* The module global _llm_service of llm.py and the threads that call      *)
(* get_llm_service at once.  global_llm_service is 0 for None or the       *)
(* number of the instance it refers to, created the number of instances    *)
(* LLMService() has constructed, callers the position of every thread in   *)
(* get_llm_service, and returned the instances the calls have returned.    *)
(***************************************************************************)
VARIABLES global_llm_service, created, callers, returned

singleton_vars == <<global_llm_service, created, callers, returned>>

conc_vars == <<workers, serial, overlap, audit, singleton_vars>>

vars == <<guard_vars, cmd_vars, chat_vars, conc_vars>>

(***************************************************************************)
(* The messages validate_input is applied to.                              *)
(***************************************************************************)
MaxWords == 6
MaxLimit == 3

\* the default of max_chars, and of LLM_MAX_INPUT_CHARS
DEFAULT_MAX_INPUT_CHARS == 500

GuardWords == {<<"a">>, <<"A">>, <<"b">>}

RECURSIVE WordLists(_)
WordLists(n) ==
  IF n = 0 THEN {<<>>}
  ELSE {<<>>} \cup {<<w>> \o l : w \in GuardWords, l \in WordLists(n - 1)}

\* phrases that touch the injection patterns, and near misses of them
GuardPhrases == {
  <<W_ignore, W_previous, W_instructions>>,
  <<W_ignore, W_all, W_above>>,
  <<W_ignore, W_to, W_previous>>,
  <<W_disregard, W_all, W_prior, W_instructions>>,
  <<W_forget, W_prior>>,
  <<W_system, W_prompt>>,
  <<W_system \o W_prompt>>,
  <<W_system, W_rules>>,
  <<W_you, W_are, W_now, W_a>>,
  <<W_you, W_are>>,
  <<W_act, W_as, W_a>>,
  <<W_act, W_as, W_if, W_you, W_are>>,
  <<W_act, W_as>>,
  <<W_pretend, W_to, W_be>>,
  <<W_pretend, W_you, W_are>>,
  <<W_new, W_instructions>>,
  <<W_new, W_rules>>,
  <<W_override, W_rules>>,
  <<W_override, W_instructions>>,
  <<<<"<">> \o W_system \o <<">">>>>,
  <<<<"<">>, W_system, <<">">>>>,
  <<<<"[">>, W_system, <<"]">>>>,
  <<<<"[">> \o W_system>>
} \cup {<<v, t>> : v \in {W_ignore, W_disregard, W_forget},
                   t \in {W_previous, W_prior, W_above}}
  \cup {<<v, W_all, t>> : v \in {W_ignore, W_disregard, W_forget},
                          t \in {W_previous, W_prior, W_above}}

GuardSeparators == {<<" ">>, <<"\t", " ">>}

GuardBodies ==
  {Join(l, <<" ">>) : l \in WordLists(MaxWords)}
    \cup {Join(p, sep) : p \in GuardPhrases, sep \in GuardSeparators}
    \cup {Upper(Join(p, <<" ">>)) : p \in GuardPhrases}
    \cup {<<"b", " ">> \o Capitalize(Join(p, <<" ">>)) \o <<" ", "b">> : p \in GuardPhrases}

\* white space before and after the body
GuardPaddings == {<< <<>>, <<>> >>, << <<" ">>, <<>> >>, << <<>>, <<"\t", " ">> >>}

GuardMessages ==
  {pad[1] \o body \o pad[2] : body \in GuardBodies, pad \in GuardPaddings}

GuardLimits == (0..MaxLimit) \cup {DEFAULT_MAX_INPUT_CHARS}

NotCalled == ValidationResult(FALSE, <<"<not called>">>)

NoRequest  == [t |-> "none"]
NoResponse == [status |-> 0, body |-> [kind |-> "none", output |-> <<>>]]
NoTrace    == [handler |-> "", arg |-> <<>>, llm_invoked |-> FALSE, model_called |-> FALSE]

Config(maxInput, maxTurns) ==
  [LLM_MAX_INPUT_CHARS |-> maxInput, LLM_MAX_CONVERSATION_TURNS |-> maxTurns]

\* the default of LLM_MAX_CONVERSATION_TURNS
DEFAULT_MAX_TURNS == 10

\* a freshly created application that has served no request
CmdFresh ==
  /\ commands = register_default_commands
  /\ llm_service = "None"
  /\ request = NoRequest
  /\ response = NoResponse
  /\ trace = NoTrace

CmdIdle ==
  /\ CmdFresh
  /\ config = Config(DEFAULT_MAX_INPUT_CHARS, DEFAULT_MAX_TURNS)

\* the call before the last one: its op, its session_id and the number of
\* messages the store held for that id when it was made
NoPreviousCall == [op |-> "none", session_id |-> "", held |-> 0]

NoCall ==
  [op |-> "none", session_id |-> "", message |-> <<>>, ret |-> <<>>,
   model_called |-> FALSE, failed |-> FALSE, raised |-> FALSE,
   prev |-> NoPreviousCall]

ChatIdle ==
  /\ sessions = NoSessions
  /\ conversation = [id \in SessionIds |-> <<>>]
  /\ chat_before = NoSessions
  /\ chat_call = NoCall
  /\ chat_count = 0

WorkerIds == {"w1", "w2"}

\* a thread between two requests: session_id is the id its requests carry,
\* left the number of requests it has still to serve
IdleWorker(session_id, left) ==
  [pc |-> "idle", session_id |-> session_id, left |-> left,
   message |-> <<>>, history |-> <<>>, output |-> <<>>, session |-> <<>>]

NoAudit ==
  [results       |-> [id \in SessionIds |-> {}],
   cleared       |-> [id \in SessionIds |-> {}],
   cleared_alone |-> [id \in SessionIds |-> {}]]

\* a thread outside get_llm_service: made is the instance it constructed in
\* the call, left the number of calls it has still to make
IdleCaller(left) == [pc |-> "idle", made |-> 0, left |-> left]

\* _llm_service: LLMService | None = None, and no thread calling
SingletonIdle ==
  /\ global_llm_service = 0
  /\ created = 0
  /\ callers = [w \in WorkerIds |-> IdleCaller(0)]
  /\ returned = {}

ThreadsIdle ==
  /\ workers = [w \in WorkerIds |-> IdleWorker("s1", 0)]
  /\ serial = [w \in WorkerIds |-> Absent]
  /\ overlap = FALSE
  /\ audit = NoAudit

ConcIdle ==
  /\ ThreadsIdle
  /\ SingletonIdle

GuardIdle ==
  /\ guard_message = <<>>
  /\ guard_max_chars = DEFAULT_MAX_INPUT_CHARS
  /\ guard_result = NotCalled
  /\ guard_pc = "idle"

InitGuard ==
  /\ guard_message \in GuardMessages
  /\ guard_max_chars \in GuardLimits
  /\ guard_result = NotCalled
  /\ guard_pc = "call"
  /\ CmdIdle
  /\ ChatIdle
  /\ ConcIdle

\* one call of validate_input(message, max_chars)
Validate ==
  /\ guard_pc = "call"
  /\ guard_result' = validate_input(guard_message, guard_max_chars)
  /\ guard_pc' = "returned"
  /\ UNCHANGED <<guard_message, guard_max_chars>>
  /\ UNCHANGED <<cmd_vars, chat_vars, conc_vars>>

NextGuard == Validate

SpecGuard == InitGuard /\ [][NextGuard]_vars

(***************************************************************************)
(* The responses sanitize_output is applied to: guard_message holds the    *)
(* response, guard_max_chars the limit and guard_result the returned text. *)
(***************************************************************************)
MaxResponse == 5

SanitizeChars == {"a", "b", " ", "\t"}

RECURSIVE Texts(_)
Texts(n) ==
  IF n = 0 THEN {<<>>}
  ELSE {<<>>} \cup {<<c>> \o t : c \in SanitizeChars, t \in Texts(n - 1)}

SanitizeResponses == Texts(MaxResponse)

SanitizeLimits == (0..MaxLimit) \cup {DEFAULT_MAX_OUTPUT_CHARS}

InitSanitize ==
  /\ guard_message \in SanitizeResponses
  /\ guard_max_chars \in SanitizeLimits
  /\ guard_result = NotCalled
  /\ guard_pc = "call_sanitize"
  /\ CmdIdle
  /\ ChatIdle
  /\ ConcIdle

\* one call of sanitize_output(response, max_chars)
Sanitize ==
  /\ guard_pc = "call_sanitize"
  /\ guard_result' = sanitize_output(guard_message, guard_max_chars)
  /\ guard_pc' = "sanitized"
  /\ UNCHANGED <<guard_message, guard_max_chars>>
  /\ UNCHANGED <<cmd_vars, chat_vars, conc_vars>>

NextSanitize == Sanitize

SpecSanitize == InitSanitize /\ [][NextSanitize]_vars

(***************************************************************************)
(* POST /command against a registry that callers may extend.               *)
(***************************************************************************)
MaxRegistered == 1
SmallInputLimit == 8

N_blog   == <<"B","l","o","g">>
N_find   == <<"f","i","n","d">>
N_my_cmd == <<"m","y"," ","c","m","d">>
N_foobar == <<"f","o","o","b","a","r">>
N_lsx    == <<"l","s","x">>
N_Help   == <<"H","e","l","p">>

\* commands a caller registers after construction
ExtraCommands == {
  Command(N_blog,   <<"Read the blog.">>,        "blog_handler"),
  Command(N_find,   <<"Find a project.">>,       "find_handler"),
  Command(N_my_cmd, <<"A name of two words.">>,  "my_cmd_handler"),
  Command(N_cv,     <<"Another CV command.">>,   "other_cv_handler"),
  Command(N_lsx,    <<"List the extras.">>,      "lsx_handler"),
  Command(<<>>,     <<"A command without a name.">>, "unnamed_handler"),
  Command(N_Help,   <<"Another help.">>,         "other_help_handler")
}

RECURSIVE CaseVariants(_)
CaseVariants(s) ==
  IF s = <<>> THEN {<<>>}
  ELSE {<<c>> \o t : c \in {LowerChar(Head(s)), UpperChar(Head(s))},
                     t \in CaseVariants(Tail(s))}

\* the first words of the commands sent
CmdTokens ==
  UNION {CaseVariants(n) : n \in {N_cv, N_find, N_lsx, <<"l","s">>}}
    \cup UNION {{n, Upper(n), Capitalize(n)} :
                  n \in {c.name : c \in Range(DEFAULT_COMMANDS)} \cup {N_blog}}
    \cup Range(UNIX_COMMANDS)
    \cup {N_foobar, <<"m","y">>, <<"M","Y">>,
          <<"l","s","-","l","a">>, <<"m","o","r","e","?">>,
          <<"c","a","t","_">>, <<"t","o","p","-","l","e","v","e","l">>}

\* what follows the first word
CmdArguments == {<<>>, <<" ", "-", "l", "a">>, <<"\t", "x">>}

CmdInputs ==
  {tok \o arg : tok \in CmdTokens, arg \in CmdArguments}
    \cup {<<" ">> \o tok \o <<"\t", " ">> : tok \in CmdTokens}
    \cup {tok \o <<" ", "c", "m", "d">> : tok \in {<<"m","y">>, <<"M","y">>, N_cv}}
    \cup {tok \o <<" ">> \o W_ignore \o <<" ">> \o W_previous : tok \in {N_foobar, N_cv}}
    \cup {<<>>, <<" ">>, <<"\t", " ">>}

\* the bodies POST /command is sent
CmdBodies ==
  {[t |-> "absent"], [t |-> "not_json"]}
    \cup {[t |-> "json", value |-> v] :
            v \in {JNull, JNum(0), JNum(5), JStr(N_help), JList(0), JList(1), JObject}}
    \cup {[t |-> "json", value |-> JCommand(c)] :
            c \in {JNull, JNum(0), JNum(5), JBool(FALSE), JBool(TRUE), JList(0), JList(1)}}
    \cup {[t |-> "json", value |-> JCommand(JStr(s))] : s \in CmdInputs}

\* the replies of the hosted model
ModelReplies == {<<>>, <<" ">>, <<"B","e","n"," ">>}

\* what agent.run_sync does in one call
ModelRuns ==
  {[raised |-> TRUE, output |-> <<>>]}
    \cup {[raised |-> FALSE, output |-> r] : r \in ModelReplies}

Environments == [init_ok : BOOLEAN, run : ModelRuns]

\* the environment is consulted only on the path of an unknown command
EnvironmentsOf(route) ==
  IF route.t = "unknown" THEN Environments
  ELSE {[init_ok |-> TRUE, run |-> [raised |-> TRUE, output |-> <<>>]]}

InitCmd ==
  /\ CmdFresh
  /\ config \in {Config(n, DEFAULT_MAX_TURNS) : n \in {SmallInputLimit, DEFAULT_MAX_INPUT_CHARS}}
  /\ GuardIdle
  /\ ChatIdle
  /\ ConcIdle

\* the number of commands of the registry that the constructor did not put there
Registered ==
  Cardinality({i \in DOMAIN commands : commands[i].value \notin Range(DEFAULT_COMMANDS)})

\* CommandRegistry.register(command), called between requests
Register(command) ==
  /\ Registered < MaxRegistered
  /\ commands' = register(commands, command)
  /\ request' = NoRequest
  /\ response' = NoResponse
  /\ trace' = NoTrace
  /\ UNCHANGED <<llm_service, config>>
  /\ UNCHANGED <<guard_vars, chat_vars, conc_vars>>

\* POST /command with the given body
PostCommand(body) ==
  \E route \in {Route(commands, body)} :
    \E env \in EnvironmentsOf(route) :
      \E out \in {Answer(route, commands, llm_service, config.LLM_MAX_INPUT_CHARS, env)} :
        /\ request' = body
        /\ response' = [status |-> out.status, body |-> out.body]
        /\ trace' = [handler |-> out.handler, arg |-> out.arg,
                     llm_invoked |-> out.llm_invoked,
                     model_called |-> out.model_called]
        /\ llm_service' = out.service
        /\ UNCHANGED <<commands, config>>
        /\ UNCHANGED <<guard_vars, chat_vars, conc_vars>>

\* the next request is served once the last response has been sent
ProcessCommand ==
  /\ request = NoRequest
  /\ \E body \in CmdBodies : PostCommand(body)

\* the response has been sent; the server waits for the next request
Deliver ==
  /\ request # NoRequest
  /\ request' = NoRequest
  /\ response' = NoResponse
  /\ trace' = NoTrace
  /\ UNCHANGED <<commands, llm_service, config>>
  /\ UNCHANGED <<guard_vars, chat_vars, conc_vars>>

RegisterCommand ==
  /\ request = NoRequest
  /\ \E command \in ExtraCommands : Register(command)

\* config.LLM_MODEL when the environment does not set LLM_MODEL
LLM_MODEL == <<"gateway/google-vertex:gemini-2.5-flash">>

\* the status dict of healthz; got is what get_llm_service() did
healthz(got) ==
  IF got.raised
  THEN [status |-> <<"healthy">>, service |-> <<"portfolio">>,
        llm_initialized |-> FALSE, llm_error |-> <<"str(e)">>]
  ELSE [status |-> <<"healthy">>, service |-> <<"portfolio">>,
        llm_initialized |-> TRUE, llm_model |-> LLM_MODEL]

\* GET /healthz; init_ok says whether LLMService() succeeds if it is called
GetHealthz(init_ok) ==
  \E got \in {get_llm_service(llm_service, init_ok)} :
    /\ request' = [t |-> "healthz"]
    /\ response' = [status |-> 200, body |-> healthz(got)]
    /\ trace' = NoTrace
    /\ llm_service' = got.service
    /\ UNCHANGED <<commands, config>>
    /\ UNCHANGED <<guard_vars, chat_vars, conc_vars>>

Healthz ==
  /\ request = NoRequest
  /\ \E init_ok \in BOOLEAN : GetHealthz(init_ok)

NextCmd ==
  \/ RegisterCommand
  \/ ProcessCommand
  \/ Healthz
  \/ Deliver

SpecCmd == InitCmd /\ [][NextCmd]_vars

(***************************************************************************)
(* Calls of LLMService.chat and LLMService.clear_session, one at a time.    *)
(***************************************************************************)
MaxTurns == 2
MaxCalls == 3

M_hi == <<"h","i">>
M_cv == <<"c","v","?">>

\* the messages chat is called with: two that pass validate_input, one that
\* matches an injection pattern and one that is blank
ChatMessages == {M_hi, M_cv, W_system \o <<" ">> \o W_prompt, <<" ">>}

\* what agent.run_sync does in one call of chat
ChatRuns ==
  {[raised |-> TRUE, output |-> <<>>],
   [raised |-> FALSE, output |-> <<"o","k">>]}

InitChat ==
  /\ sessions = NoSessions
  /\ conversation = [id \in SessionIds |-> <<>>]
  /\ chat_before = NoSessions
  /\ chat_call = NoCall
  /\ chat_count = 0
  /\ CmdFresh
  /\ config \in {Config(DEFAULT_MAX_INPUT_CHARS, k) : k \in 0..MaxTurns}
  /\ GuardIdle
  /\ ConcIdle

PreviousCall ==
  [op |-> chat_call.op, session_id |-> chat_call.session_id,
   held |-> IF chat_call.session_id \in SessionIds
            THEN Len(chat_before[chat_call.session_id].messages) ELSE 0]

\* llm.chat(session_id, message)
CallChat(session_id, message, run) ==
  \E out \in {chat(sessions, session_id, message, config.LLM_MAX_INPUT_CHARS,
                   config.LLM_MAX_CONVERSATION_TURNS, run)} :
    /\ sessions' = out.sessions
    /\ conversation' =
         IF out.model_called /\ ~ run.raised
         THEN [conversation EXCEPT ![session_id] =
                 @ \o <<ModelRequest(message), ModelResponse(run.output)>>]
         ELSE conversation
    /\ chat_before' = sessions
    /\ chat_call' = [op |-> "chat", session_id |-> session_id, message |-> message,
                     ret |-> out.ret, model_called |-> out.model_called,
                     failed |-> out.model_called /\ run.raised,
                     raised |-> FALSE, prev |-> PreviousCall]
    /\ chat_count' = chat_count + 1
    /\ UNCHANGED <<guard_vars, cmd_vars, conc_vars>>

Chat ==
  /\ chat_count < MaxCalls
  /\ \E session_id \in SessionIds, message \in ChatMessages, run \in ChatRuns :
       CallChat(session_id, message, run)

\* llm.ask(message)
CallAsk(message, run) ==
  \E out \in {ask(message, config.LLM_MAX_INPUT_CHARS, run)} :
    /\ chat_before' = sessions
    /\ chat_call' = [op |-> "ask", session_id |-> "", message |-> message,
                     ret |-> out.ret, model_called |-> out.model_called,
                     failed |-> out.model_called /\ run.raised,
                     raised |-> FALSE, prev |-> PreviousCall]
    /\ chat_count' = chat_count + 1
    /\ UNCHANGED <<sessions, conversation>>
    /\ UNCHANGED <<guard_vars, cmd_vars, conc_vars>>

Ask ==
  /\ chat_count < MaxCalls
  /\ \E message \in ChatMessages, run \in ChatRuns : CallAsk(message, run)

\* llm.clear_session(session_id)
CallClearSession(session_id) ==
  /\ sessions' = clear_session(sessions, session_id)
  /\ conversation' = [conversation EXCEPT ![session_id] = <<>>]
  /\ chat_before' = sessions
  /\ chat_call' = [op |-> "clear", session_id |-> session_id, message |-> <<>>,
                   ret |-> <<>>, model_called |-> FALSE, failed |-> FALSE,
                   raised |-> clear_session_raised(sessions, session_id),
                   prev |-> PreviousCall]
  /\ chat_count' = chat_count + 1
  /\ UNCHANGED <<guard_vars, cmd_vars, conc_vars>>

ClearSession ==
  /\ chat_count < MaxCalls
  /\ \E session_id \in SessionIds : CallClearSession(session_id)

NextChat == Chat \/ Ask \/ ClearSession

SpecChat == InitChat /\ [][NextChat]_vars

(***************************************************************************)
(* Requests served by two threads at once.  A thread runs chat and          *)
(* clear_session one statement at a time; every access to self._sessions   *)
(* is one step, and the threads' steps interleave freely.                  *)
(***************************************************************************)
MaxRequests == 2
ConcTurns == 1

\* the message each thread sends
WorkerMessage == [w \in WorkerIds |-> IF w = "w1" THEN M_hi ELSE M_cv]

\* the message of the n-th request of thread w: no two requests send the same
RequestText(w, n) == WorkerMessage[w] \o <<" ", ToString(n)>>

\* the number of requests thread w serves
RequestsOf(w) == IF w = "w1" THEN MaxRequests ELSE MaxRequests - 1

\* the message of the request thread w begins next
RequestMessage(w) == RequestText(w, RequestsOf(w) - workers[w].left + 1)

\* thread w is inside chat
InChat(w) == workers[w].pc \notin {"idle", "clear_del"}

\* the number of requests thread w has begun
RequestsBegun(w) ==
  RequestsOf(w) - workers[w].left + (IF workers[w].pc = "idle" THEN 0 ELSE 1)

\* the messages of the requests begun so far on id
Began(id) ==
  UNION {{RequestText(w, n) : n \in 1..RequestsBegun(w)} :
           w \in {v \in WorkerIds : workers[v].session_id = id}}

\* clear_session of thread w returns: the exchanges begun on its id so far
\* began before this clear
ClearReturns(w) ==
  LET id == workers[w].session_id
      alone == \A v \in WorkerIds \ {w} :
                 workers[v].session_id = id => ~ InChat(v)
  IN  audit' = [audit EXCEPT
        !.cleared[id] = @ \cup Began(id),
        !.cleared_alone[id] = IF alone THEN @ \cup Began(id) ELSE @]

InitConc ==
  /\ sessions = NoSessions
  /\ \E id2 \in SessionIds :
       workers = [w \in WorkerIds |->
                    IdleWorker(IF w = "w1" THEN "s1" ELSE id2, RequestsOf(w))]
  /\ serial = [w \in WorkerIds |-> Absent]
  /\ overlap = FALSE
  /\ audit = NoAudit
  /\ SingletonIdle
  /\ conversation = [id \in SessionIds |-> <<>>]
  /\ chat_before = NoSessions
  /\ chat_call = NoCall
  /\ chat_count = 0
  /\ CmdFresh
  /\ config = Config(DEFAULT_MAX_INPUT_CHARS, ConcTurns)
  /\ GuardIdle

ConcFrame ==
  UNCHANGED <<guard_vars, cmd_vars, conversation, chat_before, chat_call, chat_count,
              singleton_vars>>

\* the entry a store with nothing but entry under session_id has there
\* after chat has run on it undivided
SerialChat(entry, session_id, message, run) ==
  chat([NoSessions EXCEPT ![session_id] = entry], session_id, message,
       config.LLM_MAX_INPUT_CHARS, config.LLM_MAX_CONVERSATION_TURNS,
       run).sessions[session_id]

\* thread w takes a step while another thread is inside a request
Overlaps(w) == \E v \in WorkerIds \ {w} : workers[v].pc # "idle"

\* thread w moves to pc with its local variables changed as given
Goto(w, pc, changes) ==
  /\ workers' = [workers EXCEPT ![w] = [changes EXCEPT !.pc = pc]]
  /\ overlap' = (overlap \/ Overlaps(w))

\* thread w has served its request; entry is what the request makes of the
\* thread's session when run alone
Finish(w, entry) ==
  /\ workers' = [workers EXCEPT ![w] =
                   IdleWorker(workers[w].session_id, workers[w].left - 1)]
  /\ serial' = [serial EXCEPT ![w] = entry]
  /\ overlap' = (overlap \/ Overlaps(w))

\* the run raised, or _get_session did: chat answers with the apology
FinishFailed(w) ==
  Finish(w, SerialChat(serial[w], workers[w].session_id, workers[w].message,
                       [raised |-> TRUE, output |-> <<>>]))

\* chat has stored and trimmed the messages of a run that returned
FinishAnswered(w) ==
  Finish(w, SerialChat(serial[w], workers[w].session_id, workers[w].message,
                       [raised |-> FALSE, output |-> workers[w].output]))

\* chat, lines 165-167: validate_input
BeginChat(w) ==
  /\ workers[w].pc = "idle"
  /\ workers[w].left > 0
  /\ IF validate_input(RequestMessage(w), config.LLM_MAX_INPUT_CHARS).is_valid
     THEN /\ Goto(w, "get_check", [workers[w] EXCEPT !.message = RequestMessage(w)])
          /\ UNCHANGED <<serial, audit>>
     ELSE /\ Finish(w, serial[w])
          /\ UNCHANGED audit
  /\ UNCHANGED sessions
  /\ ConcFrame

\* _get_session, line 115: session_id not in self._sessions
GetSessionCheck(w) ==
  /\ workers[w].pc = "get_check"
  /\ Goto(w, IF sessions[workers[w].session_id].present
             THEN "get_read" ELSE "get_insert", workers[w])
  /\ UNCHANGED <<sessions, serial, audit>>
  /\ ConcFrame

\* _get_session, line 116: self._sessions[session_id] = []
GetSessionInsert(w) ==
  /\ workers[w].pc = "get_insert"
  /\ sessions' = store_messages(sessions, workers[w].session_id, <<>>)
  /\ Goto(w, "get_read", workers[w])
  /\ UNCHANGED <<serial, audit>>
  /\ ConcFrame

\* _get_session, line 117: return self._sessions[session_id]; a KeyError
\* here is caught by chat's except
GetSessionRead(w) ==
  /\ workers[w].pc = "get_read"
  /\ IF sessions[workers[w].session_id].present
     THEN /\ Goto(w, "run", [workers[w] EXCEPT
                               !.history = sessions[workers[w].session_id].messages])
          /\ UNCHANGED serial
     ELSE FinishFailed(w)
  /\ UNCHANGED <<sessions, audit>>
  /\ ConcFrame

\* chat, line 174: agent.run_sync(message, message_history=message_history)
RunModel(w) ==
  /\ workers[w].pc = "run"
  /\ \E run \in ChatRuns :
       IF run.raised
       THEN FinishFailed(w)
       ELSE /\ Goto(w, "store", [workers[w] EXCEPT !.output = run.output])
            /\ UNCHANGED serial
  /\ UNCHANGED <<sessions, audit>>
  /\ ConcFrame

\* chat, line 177: self._sessions[session_id] = list(result.all_messages())
StoreMessages(w) ==
  /\ workers[w].pc = "store"
  /\ sessions' = store_messages(sessions, workers[w].session_id,
                   all_messages(workers[w].history, workers[w].message,
                                workers[w].output))
  /\ Goto(w, "trim_read", workers[w])
  /\ audit' = [audit EXCEPT !.results[workers[w].session_id] =
       @ \cup {all_messages(workers[w].history, workers[w].message,
                            workers[w].output)}]
  /\ UNCHANGED serial
  /\ ConcFrame

\* _trim_session, lines 121-123: read the session and compare its length
TrimRead(w) ==
  /\ workers[w].pc = "trim_read"
  /\ IF Len(SessionOrEmpty(sessions, workers[w].session_id))
          > max_messages(config.LLM_MAX_CONVERSATION_TURNS)
     THEN /\ Goto(w, "trim_write", [workers[w] EXCEPT
                    !.session = SessionOrEmpty(sessions, workers[w].session_id)])
          /\ UNCHANGED serial
     ELSE FinishAnswered(w)
  /\ UNCHANGED <<sessions, audit>>
  /\ ConcFrame

\* _trim_session, line 125: self._sessions[session_id] = session[-max_messages:]
TrimWrite(w) ==
  /\ workers[w].pc = "trim_write"
  /\ sessions' = store_messages(sessions, workers[w].session_id,
                   PySliceFrom(workers[w].session,
                               0 - max_messages(config.LLM_MAX_CONVERSATION_TURNS)))
  /\ FinishAnswered(w)
  /\ UNCHANGED audit
  /\ ConcFrame

\* clear_session, line 129: session_id in self._sessions
ClearCheck(w) ==
  /\ workers[w].pc = "idle"
  /\ workers[w].left > 0
  /\ IF sessions[workers[w].session_id].present
     THEN /\ Goto(w, "clear_del", workers[w])
          /\ UNCHANGED <<serial, audit>>
     ELSE /\ Finish(w, Absent)
          /\ ClearReturns(w)
  /\ UNCHANGED sessions
  /\ ConcFrame

\* clear_session, line 130: del self._sessions[session_id]; a KeyError here
\* leaves clear_session and is caught by the route
ClearDelete(w) ==
  /\ workers[w].pc = "clear_del"
  /\ sessions' = clear_session(sessions, workers[w].session_id)
  /\ Finish(w, Absent)
  /\ ClearReturns(w)
  /\ ConcFrame

NextConc ==
  \E w \in WorkerIds :
    \/ BeginChat(w)
    \/ GetSessionCheck(w)
    \/ GetSessionInsert(w)
    \/ GetSessionRead(w)
    \/ RunModel(w)
    \/ StoreMessages(w)
    \/ TrimRead(w)
    \/ TrimWrite(w)
    \/ ClearCheck(w)
    \/ ClearDelete(w)

SpecConc == InitConc /\ [][NextConc]_vars

(***************************************************************************)
(* get_llm_service, called by the request threads of one process.  Each    *)
(* statement of the function is one step of a thread.                      *)
(***************************************************************************)
MaxGets == 2

InitSingleton ==
  /\ global_llm_service = 0
  /\ created = 0
  /\ callers = [w \in WorkerIds |-> IdleCaller(MaxGets)]
  /\ returned = {}
  /\ ThreadsIdle
  /\ GuardIdle
  /\ CmdIdle
  /\ ChatIdle

SingletonFrame ==
  UNCHANGED <<guard_vars, cmd_vars, chat_vars, workers, serial, overlap, audit>>

\* line 193: if _llm_service is None
ServiceCheck(w) ==
  /\ callers[w].pc = "idle"
  /\ callers[w].left > 0
  /\ callers' = [callers EXCEPT ![w].pc =
                   IF global_llm_service = 0 THEN "construct" ELSE "return"]
  /\ UNCHANGED <<global_llm_service, created, returned>>
  /\ SingletonFrame

\* line 194, right-hand side: LLMService(); when __init__ raises, the call
\* of get_llm_service ends without a result
ServiceConstruct(w) ==
  /\ callers[w].pc = "construct"
  /\ \E init_ok \in BOOLEAN :
       IF init_ok
       THEN /\ created' = created + 1
            /\ callers' = [callers EXCEPT ![w].pc = "assign", ![w].made = created + 1]
       ELSE /\ created' = created
            /\ callers' = [callers EXCEPT ![w] = IdleCaller(callers[w].left - 1)]
  /\ UNCHANGED <<global_llm_service, returned>>
  /\ SingletonFrame

\* line 194, the assignment: _llm_service = <the new instance>
ServiceAssign(w) ==
  /\ callers[w].pc = "assign"
  /\ global_llm_service' = callers[w].made
  /\ callers' = [callers EXCEPT ![w].pc = "return"]
  /\ UNCHANGED <<created, returned>>
  /\ SingletonFrame

\* line 195: return _llm_service
ServiceReturn(w) ==
  /\ callers[w].pc = "return"
  /\ returned' = returned \cup {global_llm_service}
  /\ callers' = [callers EXCEPT ![w] = IdleCaller(callers[w].left - 1)]
  /\ UNCHANGED <<global_llm_service, created>>
  /\ SingletonFrame

NextSingleton ==
  \E w \in WorkerIds :
    \/ ServiceCheck(w)
    \/ ServiceConstruct(w)
    \/ ServiceAssign(w)
    \/ ServiceReturn(w)

SpecSingleton == InitSingleton /\ [][NextSingleton]_vars

(***************************************************************************)
(* The request that was just answered, as the claims about POST /command    *)
(* read it.                                                                *)
(***************************************************************************)
\* the body is a JSON object whose command member is a string
SentText ==
  /\ request # NoRequest
  /\ request.t = "json"
  /\ request.value.t = "obj"
  /\ request.value.has_command
  /\ request.value.command.t = "str"

SentCommand == request.value.command.v

\* the first white-space-delimited token of the command sent, lowercased
SentToken == Lower(Split(SentCommand)[1])

(***************************************************************************)
(* C1.  A request that names a registered command, in any letter case and  *)
(* with or without arguments, is answered by that command's handler, which *)
(* receives the whole trimmed text.                                        *)
(***************************************************************************)
\* text is name in some letter case, alone or followed by white space and more
C1_NamesCommand(text, name) ==
  LET raw == Strip(text)
  IN  /\ Len(raw) >= Len(name)
      /\ Lower(SubSeq(raw, 1, Len(name))) = Lower(name)
      /\ (Len(raw) > Len(name) => IsSpace(raw[Len(name) + 1]))

\* the handler of command ran on the trimmed text and its result was returned
C1_HandlerAnswers(command) ==
  /\ trace.handler = command.handler
  /\ trace.arg = Strip(SentCommand)
  /\ response = [status |-> 200,
                 body |-> RunHandler(command.handler, Strip(SentCommand), commands)]

\* name is one word: not empty, no white space in it
C1_OneWord(name) ==
  /\ name # <<>>
  /\ \A k \in DOMAIN name : ~ IsSpace(name[k])

\* name begins, in some letter case, with a shell-utility name that ends
\* where name ends or where a character other than a letter, digit or
\* underscore follows
C1_Shadowed(name) ==
  \E i \in DOMAIN UNIX_COMMANDS :
    LET u == UNIX_COMMANDS[i]
    IN  /\ Len(name) >= Len(u)
        /\ Lower(SubSeq(name, 1, Len(u))) = u
        /\ (Len(name) > Len(u) => ~ IsWord(name[Len(u) + 1]))

\* C1 as stated: for every registered command, under any name, a request
\* that names it in any letter case, with or without arguments, invokes its
\* handler with the trimmed text and returns the handler's result
C1_AnyNameDispatches ==
  SentText =>
    \A i \in DOMAIN commands :
      C1_NamesCommand(SentCommand, commands[i].value.name)
        => C1_HandlerAnswers(commands[i].value)

\* C1 amended: for every command the registry holds whose name is one word
\* and is not shadowed by a shell-utility name, a request that names it in
\* any letter case, with or without arguments, invokes its handler with the
\* trimmed text and returns the handler's result
C1_OneWordNameDispatches ==
  SentText =>
    \A i \in DOMAIN commands :
      ( /\ C1_OneWord(commands[i].value.name)
        /\ ~ C1_Shadowed(commands[i].value.name)
        /\ C1_NamesCommand(SentCommand, commands[i].value.name) )
        => C1_HandlerAnswers(commands[i].value)

\* a command registered after construction under a name with a capital is
\* sent in another letter case with an argument, and its handler answers
C1_Witness ==
  /\ SentText
  /\ \E i \in DOMAIN commands :
       /\ commands[i].value.handler = "blog_handler"
       /\ C1_NamesCommand(SentCommand, commands[i].value.name)
       /\ Len(Strip(SentCommand)) > Len(commands[i].value.name)
       /\ SubSeq(Strip(SentCommand), 1, Len(commands[i].value.name))
            # commands[i].value.name
       /\ C1_HandlerAnswers(commands[i].value)

(***************************************************************************)
(* C2.  A request whose first token is a shell-utility name gets the fixed *)
(* simulated-terminal message, and nothing else runs.                      *)
(***************************************************************************)
\* the 21 names as the claim lists them
C2_ShellNames == {
  <<"l","s">>, <<"c","d">>, <<"r","m">>, <<"p","w","d">>, <<"c","a","t">>,
  <<"t","o","u","c","h">>, <<"m","k","d","i","r">>, <<"r","m","d","i","r">>,
  <<"c","p">>, <<"m","v">>, <<"c","h","m","o","d">>, <<"c","h","o","w","n">>,
  <<"f","i","n","d">>, <<"g","r","e","p">>, <<"h","e","a","d">>, <<"t","a","i","l">>,
  <<"l","e","s","s">>, <<"m","o","r","e">>, <<"p","s">>, <<"t","o","p">>,
  <<"k","i","l","l">>
}

C2_FirstTokenIsShellName ==
  /\ SentText
  /\ Split(SentCommand) # <<>>
  /\ SentToken \in C2_ShellNames

\* C2: for every input whose first white-space-delimited token equals, in
\* any letter case, one of the 21 shell-utility names, the response is
\* exactly {kind: error, output: the simulated-terminal message}, whatever
\* follows the token, and neither a handler nor the LLM adapter is invoked
C2_ShellNameGetsSimulatedTerminal ==
  C2_FirstTokenIsShellName =>
    /\ response.body =
         [kind |-> "error",
          output |-> <<"Oops sorry, this is just a simulation of a real terminal. Type 'help' to see available commands.">>]
    /\ trace.handler = ""
    /\ ~ trace.llm_invoked
    /\ ~ trace.model_called

\* 'find' is a registered command, and a request that writes it with a
\* capital and an argument still gets the simulated-terminal message
C2_Witness ==
  /\ C2_FirstTokenIsShellName
  /\ DictHas(commands, N_find)
  /\ SentToken = N_find
  /\ Split(SentCommand)[1] # N_find
  /\ Len(Split(SentCommand)) > 1
  /\ response.body.output = SIMULATED_TERMINAL_MESSAGE

(***************************************************************************)
(* C3.  The command 'cv' answers with the download envelope.               *)
(***************************************************************************)
\* C3: POST /command with 'cv', while cv is the command of the defaults,
\* returns exactly {kind: download, output: 'Opening CV download in a new
\* tab...', url: '/download/cv'}
C3_CvReturnsDownloadEnvelope ==
  ( /\ SentText
    /\ SentCommand = N_cv
    /\ DictHas(commands, N_cv)
    /\ DictGet(commands, N_cv).handler = "_cv_handler" )
    => response.body =
         [kind |-> "download",
          output |-> <<"Opening CV download in a new tab...">>,
          url |-> <<"/download/cv">>]

(***************************************************************************)
(* C4.  An unknown command is answered by the assistant or by the fixed    *)
(* apology.                                                                *)
(***************************************************************************)
C4_UnknownFirstToken ==
  /\ SentText
  /\ Split(SentCommand) # <<>>
  /\ ~ DictHas(commands, SentToken)
  /\ SentToken \notin C2_ShellNames

\* C4: for an input whose first token is neither a registered command nor a
\* shell-utility name the response has kind ai or error and a non-empty
\* output, and with kind error the output is exactly "We seem to be having
\* a bit of trouble on our end - sorry about that. Try 'help' to see
\* available commands."
C4_UnknownGetsAiOrApology ==
  C4_UnknownFirstToken =>
    /\ response.body.kind \in {"ai", "error"}
    /\ response.body.output # <<>>
    /\ response.body.kind = "error" =>
         response.body.output =
           <<"We seem to be having a bit of trouble on our end - sorry about that. Try 'help' to see available commands.">>

(***************************************************************************)
(* C5.  Every body sent to POST /command is answered with HTTP 200 and an  *)
(* envelope.                                                               *)
(***************************************************************************)
\* the kinds of the response envelope
C5_Kinds ==
  {"text", "download", "clear", "chat_start", "chat_end", "ai", "error", "success"}

\* C5: for every request body (absent, not JSON, JSON without a command, a
\* command that is null, a string, or another value) the response is HTTP
\* 200 with a kind of the envelope's enum; no exception leaves the handler
C5_EveryBodyGetsEnvelope ==
  (request # NoRequest /\ request.t # "healthz") =>
    /\ response.status = 200
    /\ response.body.kind \in C5_Kinds

(***************************************************************************)
(* C6.  After every successful chat the stored history is the most recent  *)
(* 2 * max-turns messages of the conversation.                             *)
(***************************************************************************)
C6_AfterSuccessfulChat ==
  /\ chat_call.op = "chat"
  /\ chat_call.model_called
  /\ ~ chat_call.failed

\* the last n elements of conv, or all of conv when it has fewer
C6_MostRecent(conv, n) ==
  SubSeq(conv, (IF Len(conv) > n THEN Len(conv) - n ELSE 0) + 1, Len(conv))

\* C6: for every max-turns K >= 0, after each successful chat on a session
\* id the history stored for the id has at most 2K messages and is exactly
\* the most recent 2K messages of the conversation, in their order
C6_HistoryIsMostRecent2K ==
  C6_AfterSuccessfulChat =>
    /\ Len(SessionOrEmpty(sessions, chat_call.session_id))
         <= 2 * config.LLM_MAX_CONVERSATION_TURNS
    /\ SessionOrEmpty(sessions, chat_call.session_id)
         = C6_MostRecent(conversation[chat_call.session_id],
                         2 * config.LLM_MAX_CONVERSATION_TURNS)

(***************************************************************************)
(* C7.  A chat whose model call fails answers with the apology and records *)
(* nothing of the exchange.                                                *)
(***************************************************************************)
C7_ModelCallFailed ==
  /\ chat_call.op = "chat"
  /\ chat_call.failed

C7_Apology ==
  chat_call.ret =
    <<"Sorry, I'm having trouble responding right now. Please try again.">>

\* C7 as stated: the store after the call is identical to the store before
\* it, the same ids with the same turns, and no entry is added
C7_StoreIdentical ==
  C7_ModelCallFailed => (C7_Apology /\ sessions = chat_before)

\* C7 amended: when the model call of chat(session_id, message) fails, chat
\* returns the apology, every id the store held is still held, every id has
\* the turns it had, and the only entry that can be new is an empty one for
\* session_id
C7_TurnsUnchanged ==
  C7_ModelCallFailed =>
    /\ C7_Apology
    /\ \A id \in SessionIds :
         /\ sessions[id].messages = chat_before[id].messages
         /\ chat_before[id].present => sessions[id].present
         /\ (sessions[id].present /\ ~ chat_before[id].present)
              => id = chat_call.session_id

\* the model call fails for an id the store does not hold, while the store
\* holds the turns of another id
C7_Witness ==
  /\ C7_ModelCallFailed
  /\ ~ chat_before[chat_call.session_id].present
  /\ sessions[chat_call.session_id] = Held(<<>>)
  /\ \E id \in SessionIds : chat_before[id].messages # <<>>
  /\ C7_Apology

(***************************************************************************)
(* C8.  Requests that run at once on two different session ids do not      *)
(* interfere.                                                              *)
(***************************************************************************)
C8_DifferentIds == workers["w1"].session_id # workers["w2"].session_id

C8_NoRequestInProgress == \A w \in WorkerIds : workers[w].pc = "idle"

\* whenever no request is in progress, each id has the history its own
\* requests give it when run one after the other
C8_HistoryAsSerial ==
  (C8_DifferentIds /\ C8_NoRequestInProgress) =>
    \A w \in WorkerIds : sessions[workers[w].session_id] = serial[w]

\* a step of one thread leaves the entry of the other thread's id as it was
C8_OtherIdUntouched ==
  C8_DifferentIds =>
    \A w \in WorkerIds :
      workers'[w] = workers[w] =>
        sessions'[workers[w].session_id] = sessions[workers[w].session_id]

\* C8: for chat and clear_session requests that run concurrently on two
\* different session ids, under every interleaving of their steps the
\* history stored for each id at the end equals the history the id has when
\* the requests run one after the other, and a request on one id never
\* adds, removes or reorders turns of the other id
C8_DifferentIdsDoNotInterfere ==
  [] C8_HistoryAsSerial /\ [][C8_OtherIdUntouched]_vars

\* both threads have served all their requests, their steps interleaved,
\* and each id holds the trimmed history of its own thread's messages
C8_Witness ==
  /\ C8_DifferentIds
  /\ C8_NoRequestInProgress
  /\ overlap
  /\ \A w \in WorkerIds :
       /\ workers[w].left = 0
       /\ sessions[workers[w].session_id] =
            Held(<<ModelRequest(RequestText(w, RequestsOf(w))),
                   ModelResponse(<<"o","k">>)>>)

(***************************************************************************)
(* C9.  A message whose length exceeds max_chars is rejected with the      *)
(* length message that names max_chars.                                    *)
(***************************************************************************)
\* C9 as stated: the length of the message as passed exceeds max_chars
C9_TooLongAsPassed ==
  (guard_pc = "returned" /\ Len(guard_message) > guard_max_chars)
    => guard_result = ValidationResult(FALSE, MsgTooLong(guard_max_chars))

\* C9 amended: every message whose length after removing the surrounding
\* white space exceeds max_chars is rejected with is_valid = false and the
\* message "Message too long. Please keep it under <max_chars> characters."
C9_TooLongAfterStrip ==
  (guard_pc = "returned" /\ Len(Strip(guard_message)) > guard_max_chars)
    => /\ guard_result.is_valid = FALSE
       /\ guard_result.error_message =
            <<"Message too long. Please keep it under ",
              ToString(guard_max_chars), " characters.">>

C9_Witness ==
  /\ guard_pc = "returned"
  /\ Len(Strip(guard_message)) > guard_max_chars
  /\ guard_max_chars > 0
  /\ Strip(guard_message) # guard_message
  /\ MatchesInjection(guard_message)
  /\ guard_result.error_message = MsgTooLong(guard_max_chars)

(***************************************************************************)
(* C10.  A message within the limit that matches no injection pattern and  *)
(* repeats no word too often is accepted.                                  *)
(***************************************************************************)
\* the words of a text as the claim counts them: lowercased, split at white space
C10_Words(m) == Split(Lower(m))

\* no word accounts for more than half of a text of more than five words
C10_NoWordRepeated(m) ==
  LET words == C10_Words(m)
  IN  Len(words) > 5 =>
        \A i \in DOMAIN words :
          2 * Cardinality({j \in DOMAIN words : words[j] = words[i]}) <= Len(words)

C10_Acceptable ==
  /\ Len(guard_message) <= guard_max_chars
  /\ ~ MatchesInjection(guard_message)
  /\ C10_NoWordRepeated(guard_message)

\* C10 as stated
C10_AcceptedAsStated ==
  (guard_pc = "returned" /\ C10_Acceptable)
    => guard_result = ValidationResult(TRUE, None)

\* C10 amended: every message that holds a character other than white space,
\* whose length is at most max_chars, that matches no injection pattern and
\* in which no word exceeds the repetition threshold is accepted with
\* is_valid = true and no error message.
C10_AcceptedWhenNotBlank ==
  (/\ guard_pc = "returned"
   /\ C10_Acceptable
   /\ \E i \in DOMAIN guard_message : ~ IsSpace(guard_message[i]))
    => guard_result = ValidationResult(TRUE, None)

C10_Witness ==
  /\ guard_pc = "returned"
  /\ C10_Acceptable
  /\ Len(guard_message) = guard_max_chars
  /\ Len(C10_Words(guard_message)) > 1
  /\ guard_result.is_valid

(***************************************************************************)
(* C11.  Every message of six or more words separated by white space, in   *)
(* which one word (letter case ignored) accounts for more than half of     *)
(* the words, is rejected by validate_input: is_valid = false.             *)
(***************************************************************************)
C11_Words(m) == Split(m)

\* how often the word at position i occurs in ws, letter case ignored
C11_Occurrences(ws, i) ==
  Cardinality({j \in DOMAIN ws : Lower(ws[j]) = Lower(ws[i])})

C11_OneWordDominates(m) ==
  LET ws == C11_Words(m)
  IN  Len(ws) >= 6 /\ \E i \in DOMAIN ws : 2 * C11_Occurrences(ws, i) > Len(ws)

\* C11: a message of six or more words, more than half of which are one
\* word in any letter case, is not valid
C11_RepetitionRejected ==
  (guard_pc = "returned" /\ C11_OneWordDominates(guard_message))
    => ~ guard_result.is_valid

\* the dominating word is written in both letter cases, so that no spelling
\* of it alone exceeds half, and nothing else is wrong with the message
C11_Witness ==
  /\ guard_pc = "returned"
  /\ C11_OneWordDominates(guard_message)
  /\ ~ ExcessiveRepetitionAsTyped(guard_message)
  /\ guard_result = ValidationResult(FALSE, MSG_REPETITION)

(***************************************************************************)
(* C12.  Every message that contains anywhere, in any letter case, one of  *)
(* the listed injection phrases is rejected by validate_input.             *)
(***************************************************************************)
\* the listed phrases, words separated by one blank
C12_Phrases ==
  {Join(p, <<" ">>) :
     p \in {<<v, t>> : v \in {W_ignore, W_disregard, W_forget},
                       t \in {W_previous, W_prior, W_above}}
       \cup {<<v, W_all, t>> : v \in {W_ignore, W_disregard, W_forget},
                               t \in {W_previous, W_prior, W_above}}
       \cup {<<W_system, W_prompt>>,
             <<W_you, W_are, W_now>>,
             <<W_act, W_as, W_a>>,
             <<W_act, W_as, W_if, W_you, W_are>>,
             <<W_pretend, W_to, W_be>>,
             <<W_pretend, W_you, W_are>>,
             <<W_new, W_instructions>>,
             <<W_override, W_instructions>>,
             <<W_override, W_rules>>,
             <<<<"<">> \o W_system \o <<">">>>>,
             <<<<"[">> \o W_system \o <<"]">>>>}}

\* phrase occurs in text at position i
C12_OccursAt(text, phrase, i) ==
  /\ i + Len(phrase) - 1 <= Len(text)
  /\ SubSeq(text, i, i + Len(phrase) - 1) = phrase

C12_ContainsPhrase(m) ==
  \E low \in {Lower(m)} :
    \E phrase \in C12_Phrases :
      \E i \in 1..Len(m) : C12_OccursAt(low, phrase, i)

\* C12: a message that contains a listed injection phrase, anywhere and in
\* any letter case, is not valid
C12_InjectionRejected ==
  (guard_pc = "returned" /\ C12_ContainsPhrase(guard_message))
    => ~ guard_result.is_valid

\* the phrase stands in the middle of the message with a capital letter, and
\* the message is rejected for it
C12_Witness ==
  /\ guard_pc = "returned"
  /\ C12_ContainsPhrase(guard_message)
  /\ ~ C12_ContainsPhrase(SubSeq(guard_message, 1, 3))
  /\ \E phrase \in C12_Phrases : ~ C12_OccursAt(Lower(guard_message), phrase, 1)
  /\ guard_message # Lower(guard_message)
  /\ ~ MatchesInjectionAtStart(guard_message)
  /\ guard_result = ValidationResult(FALSE, MSG_INJECTION)

(***************************************************************************)
(* C13.  In ask and in chat validation precedes the model call: when       *)
(* validate_input rejects the message, the call returns the guard's error  *)
(* message verbatim, makes no model call and leaves the session store      *)
(* unchanged.                                                              *)
(***************************************************************************)
\* what validate_input says of the message of the last call
C13_Validation == validate_input(chat_call.message, config.LLM_MAX_INPUT_CHARS)

C13_Rejected ==
  /\ chat_call.op \in {"ask", "chat"}
  /\ ~ C13_Validation.is_valid

\* C13: a call of ask or chat whose message the guard rejects returns the
\* guard's error message, does not call the model and leaves every session
\* as it was
C13_RejectedBeforeModelCall ==
  C13_Rejected =>
    /\ chat_call.ret = C13_Validation.error_message
    /\ ~ chat_call.model_called
    /\ sessions = chat_before

\* chat is called on an id with a recorded exchange and on an id the store
\* does not hold, with a message that matches an injection pattern
C13_Witness ==
  /\ C13_Rejected
  /\ chat_call.op = "chat"
  /\ chat_call.ret = MSG_INJECTION
  /\ ~ chat_before[chat_call.session_id].present
  /\ \E id \in SessionIds : Len(chat_before[id].messages) > 0

(***************************************************************************)
(* C14.  After any sequence of chat calls on an id, clear_session(id),     *)
(* called once or twice in a row, raises nothing and leaves the store      *)
(* with no entry and no turns for the id; the next get-or-create on the    *)
(* id returns an empty history; clearing an id the store does not hold     *)
(* changes nothing.                                                        *)
(***************************************************************************)
C14_AfterClear == chat_call.op = "clear"

\* C14: a call of clear_session(id) does not raise, leaves no entry and no
\* turns for id, so that get-or-create then returns an empty history, and
\* changes nothing when the store did not hold id
C14_ClearRemovesEntry ==
  C14_AfterClear =>
    /\ ~ chat_call.raised
    /\ ~ sessions[chat_call.session_id].present
    /\ sessions[chat_call.session_id].messages = <<>>
    /\ get_session(sessions, chat_call.session_id).ret = <<>>
    /\ ~ chat_before[chat_call.session_id].present => sessions = chat_before

\* the second of two calls of clear_session in a row on an id, the first of
\* which removed the turns that calls of chat had recorded for the id
C14_Witness ==
  /\ C14_AfterClear
  /\ chat_call.prev.op = "clear"
  /\ chat_call.prev.session_id = chat_call.session_id
  /\ chat_call.prev.held > 0
  /\ ~ chat_before[chat_call.session_id].present
  /\ sessions = chat_before

(***************************************************************************)
(* C15.  For every response longer than max_chars, sanitize_output         *)
(* returns a prefix of response of at most max_chars characters that ends  *)
(* at a whole-word boundary (no word is cut in the middle), followed by    *)
(* '...', so the result has at most max_chars + 3 characters.              *)
(***************************************************************************)
C15_Ellipsis == <<".", ".", ".">>

\* the first n characters of the response end where a word ends: the
\* character before the cut or the one after it is white space
C15_AtWordBoundary(text, n) ==
  \/ n = 0
  \/ n = Len(text)
  \/ IsSpace(text[n])
  \/ IsSpace(text[n + 1])

\* C15: the result for a response longer than max_chars is a prefix of it
\* of at most max_chars characters that cuts no word, followed by '...'
C15_TruncatedAtWholeWord ==
  (guard_pc = "sanitized" /\ Len(guard_message) > guard_max_chars)
    => /\ \E n \in 0..guard_max_chars :
            /\ guard_result = SubSeq(guard_message, 1, n) \o C15_Ellipsis
            /\ C15_AtWordBoundary(guard_message, n)
       /\ Len(guard_result) <= guard_max_chars + 3

(***************************************************************************)
(* C16.  After any sequence of register calls, 'help' returns kind 'text'  *)
(* and an output that contains the name of every command currently in the  *)
(* registry.                                                               *)
(***************************************************************************)
\* part occurs in text
C16_Contains(text, part) ==
  \E i \in 0..(Len(text) - Len(part)) : SubSeq(text, i + 1, i + Len(part)) = part

\* the command sent is help, in any letter case, with or without arguments
C16_HelpSent ==
  /\ SentText
  /\ Split(SentCommand) # <<>>
  /\ SentToken = N_help

C16_ListsEveryCommand ==
  /\ response.status = 200
  /\ response.body.kind = "text"
  /\ \A i \in DOMAIN commands :
       C16_Contains(response.body.output, commands[i].value.name)

\* C16 as stated: whatever has been registered, the answer to help is of
\* kind text and contains the name of every command of the registry
C16_HelpListsRegistry == C16_HelpSent => C16_ListsEveryCommand

\* C16 amended: while the command registered under help is the one the
\* constructor registered, the answer to help is of kind text and contains
\* the name of every command of the registry
C16_BuiltInHelpListsRegistry ==
  (C16_HelpSent /\ DictGet(commands, N_help).handler = "_help_handler")
    => C16_ListsEveryCommand

\* help is sent after a command with a name of its own was registered
C16_Witness ==
  /\ C16_HelpSent
  /\ DictGet(commands, N_help).handler = "_help_handler"
  /\ Len(commands) > Len(DEFAULT_COMMANDS)
  /\ C16_Contains(response.body.output, N_blog)

(***************************************************************************)
(* C17.  GET /healthz always returns HTTP 200 with a body that contains    *)
(* the fields status, service, llm_initialized and llm_model, both when    *)
(* the LLM service initialises and when its initialisation raises.         *)
(***************************************************************************)
C17_Fields == {"status", "service", "llm_initialized", "llm_model"}

\* C17: every answer to GET /healthz is HTTP 200 and its body has the
\* fields status, service, llm_initialized and llm_model
C17_HealthzHasAllFields ==
  (request # NoRequest /\ request.t = "healthz")
    => /\ response.status = 200
       /\ C17_Fields \subseteq DOMAIN response.body

(***************************************************************************)
(* C19.  POST /command returns the simulated-terminal message only when    *)
(* the first white-space-delimited token of the input equals, letter case  *)
(* ignored, a name of the shell-utility denylist; 'ls-la', 'more?' and     *)
(* 'top-level skills' are not answered with it.                            *)
(***************************************************************************)
C19_FirstTokenIsDenylisted ==
  /\ Split(SentCommand) # <<>>
  /\ \E i \in DOMAIN UNIX_COMMANDS : SentToken = UNIX_COMMANDS[i]

\* C19: a request is answered with the simulated-terminal message only if
\* its first token is, letter case ignored, a name of the denylist
C19_SimulatedTerminalOnlyForDenylisted ==
  (SentText /\ response.body.output = SIMULATED_TERMINAL_MESSAGE)
    => C19_FirstTokenIsDenylisted

(***************************************************************************)
(* C18.  When two chat requests run at once on the same session id, the    *)
(* history of the id is the complete result written by the request that    *)
(* writes last: the turn pair of the other request can be absent, but the  *)
(* stored list is never a partial or interleaved mixture of the two.       *)
(***************************************************************************)
C18_SameId == workers["w1"].session_id = workers["w2"].session_id

\* list is the whole of a result that chat assigned to the entry of id, or
\* what _trim_session keeps of one
C18_WholeResult(id, list) ==
  \E result \in audit.results[id] :
    \/ list = result
    \/ list = PySliceFrom(result, 0 - max_messages(config.LLM_MAX_CONVERSATION_TURNS))

\* C18: with both threads on one id, the list stored for an id is at every
\* moment empty or one whole result of one request, trimmed or not
C18_LastWriteWins ==
  C18_SameId =>
    \A id \in SessionIds :
      \/ sessions[id].messages = <<>>
      \/ C18_WholeResult(id, sessions[id].messages)

C18_OnePair(w) ==
  <<ModelRequest(RequestText(w, 1)), ModelResponse(<<"o", "k">>)>>

\* both threads have stored the result of their first request on the same
\* id, their steps interleaved and nothing cleared; neither result held the
\* turn pair of the other request, so nothing was trimmed, and the history
\* is one of the two results
C18_Witness ==
  /\ C18_SameId
  /\ \A w \in WorkerIds : workers[w].pc = "idle"
  /\ overlap
  /\ audit.cleared["s1"] = {}
  /\ audit.results["s1"] = {C18_OnePair(w) : w \in WorkerIds}
  /\ \E w \in WorkerIds : sessions["s1"].messages = C18_OnePair(w)

(***************************************************************************)
(* C20.  Once clear_session(id) has returned, the history stored for id    *)
(* never again contains a turn of an exchange that began before the clear, *)
(* under every interleaving with chat requests on the same id.             *)
(***************************************************************************)
\* the messages of the user's turns stored for id; _trim_session drops
\* turns in pairs, so a response is stored only behind its request
C20_StoredRequests(id) ==
  {sessions[id].messages[i].content :
     i \in {j \in DOMAIN sessions[id].messages :
              sessions[id].messages[j].kind = "request"}}

\* C20 as stated: no turn of an exchange begun before a clear_session(id)
\* that has returned is ever stored for id again
C20_NoTurnFromBeforeClear ==
  \A id \in SessionIds : C20_StoredRequests(id) \cap audit.cleared[id] = {}

\* C20 amended: no turn of an exchange begun before a clear_session(id)
\* that returned while no chat request on id was in progress is ever stored
\* for id again
C20_NoTurnFromBeforeClearAlone ==
  \A id \in SessionIds : C20_StoredRequests(id) \cap audit.cleared_alone[id] = {}

\* an exchange was stored, clear_session returned while no chat was in
\* progress, and a later exchange has been stored since
C20_Witness ==
  \E id \in SessionIds :
    /\ \E result \in audit.results[id] :
         \E i \in DOMAIN result : result[i].content \in audit.cleared_alone[id]
    /\ C20_StoredRequests(id) # {}
    /\ \A w \in WorkerIds : workers[w].pc = "idle"

(***************************************************************************)
(* C22.  For every response (empty, white space only, shorter or longer    *)
(* than max_chars) and every max_chars >= 0, sanitize_output returns a     *)
(* text that is not empty.                                                 *)
(***************************************************************************)
\* C22: whatever the response and the limit, the text sanitize_output
\* returns has at least one character
C22_SanitizedNotEmpty ==
  guard_pc = "sanitized" => guard_result # <<>>

(***************************************************************************)
(* C21.  Within one process every call of get_llm_service that returns     *)
(* yields the same LLMService instance, also when the first calls arrive   *)
(* at once from several request threads, so that there is one session map  *)
(* and the turns recorded through one request are seen by every later one. *)
(***************************************************************************)
\* C21: the calls of get_llm_service that have returned have all returned
\* the same instance
C21_OneInstanceReturned == Cardinality(returned) <= 1
====
